---- MODULE Spec2Model ----
(***************************************************************************)
(* A model of the ctxlog logger: the scope chain built by With, the tiny   *)
(* JSON encoder (tinyjson.go) and Logger.OutputContext with the wrappers   *)
(* around it (ctxlog.go, log.go).                                          *)
(*                                                                         *)
(* Go strings and the encoder's output are sequences of bytes (0..255).    *)
(* A literal text is written as the tuple of its bytes, with the text in   *)
(* a comment.                                                              *)
(***************************************************************************)
EXTENDS Integers, Sequences, FiniteSets, Bags, TLC

(***************************************************************************)
(* Bounds of the model.                                                    *)
(***************************************************************************)
\* goroutines that log through the one Logger
NumProcs == 2
\* logging calls started in one behaviour
MaxCalls == 2
\* scope nodes made by With in one behaviour
MaxNodes == 2

(***************************************************************************)
(* Levels (ctxlog.go, the Level constants).                                *)
(***************************************************************************)
LevelTrace == -1
LevelDebug == 0
LevelInfo == 1
LevelWarn == 2
LevelError == 3
LevelFatal == 4
LevelPanic == 5
LevelNo == 6
LevelDisabled == 7

\* Level.String: every value the switch does not name is "trace"
LevelString(lv) ==
  CASE lv = LevelDebug -> <<100, 101, 98, 117, 103>>                 \* "debug"
    [] lv = LevelInfo -> <<105, 110, 102, 111>>                      \* "info"
    [] lv = LevelWarn -> <<119, 97, 114, 110>>                       \* "warn"
    [] lv = LevelError -> <<101, 114, 114, 111, 114>>                \* "error"
    [] lv = LevelFatal -> <<102, 97, 116, 97, 108>>                  \* "fatal"
    [] lv = LevelPanic -> <<112, 97, 110, 105, 99>>                  \* "panic"
    [] lv = LevelNo -> <<110, 111>>                                  \* "no"
    [] lv = LevelDisabled -> <<100, 105, 115, 97, 98, 108, 101, 100>> \* "disabled"
    [] OTHER -> <<116, 114, 97, 99, 101>>                            \* "trace"

(***************************************************************************)
(* Flags (log.go, the const block).                                        *)
(***************************************************************************)
Ldate == 1
Ltime == 2
Lmicroseconds == 4
Llongfile == 8
Lshortfile == 16
LUTC == 32
Lmsgprefix == 64

\* flags & bit # 0, for a single-bit mask
HasFlag(flags, bit) == (flags \div bit) % 2 = 1

(***************************************************************************)
(* Attribute values: Go's `any`.  t is the dynamic type; the other fields  *)
(* carry the value.                                                        *)
(*   int, uint : n                                                         *)
(*   bool      : n (1 true, 0 false)                                       *)
(*   string    : s, the bytes                                              *)
(*   float64, float32 : k is "nan", "inf", "zero" or "fin"; a finite       *)
(*       non-zero float is given by its shortest round-tripping decimal    *)
(*       digits s (ASCII, first digit not 0) and decimal point position n  *)
(*       (the value is 0.s * 10^n), neg its sign                           *)
(*   other     : any type appendAny's switch does not name; k is "ok" for  *)
(*       a value encoding/json accepts, with s its JSON text, and "bad"    *)
(*       for one it rejects (a channel, a cycle)                           *)
(***************************************************************************)
IntV(n) == [t |-> "int", k |-> "", neg |-> FALSE, n |-> n, s |-> <<>>]
UintV(n) == [t |-> "uint", k |-> "", neg |-> FALSE, n |-> n, s |-> <<>>]
BoolV(b) == [t |-> "bool", k |-> "", neg |-> FALSE, n |-> IF b THEN 1 ELSE 0, s |-> <<>>]
StringV(s) == [t |-> "string", k |-> "", neg |-> FALSE, n |-> 0, s |-> s]
Float64V(k, neg, s, n) == [t |-> "float64", k |-> k, neg |-> neg, n |-> n, s |-> s]
Float32V(k, neg, s, n) == [t |-> "float32", k |-> k, neg |-> neg, n |-> n, s |-> s]
OtherV(k, s) == [t |-> "other", k |-> k, neg |-> FALSE, n |-> 0, s |-> s]
\* the nil interface value (the zero value of keyValue.value)
NilV == [t |-> "nil", k |-> "", neg |-> FALSE, n |-> 0, s |-> <<>>]


(***************************************************************************)
(* Bytes and runes.                                                        *)
(***************************************************************************)
\* a division that rounds to the nearest integer
RoundDiv(a, b) == (2 * a + b) \div (2 * b)

\* Go's integer division and remainder truncate toward zero
GoDiv(a, b) == IF a >= 0 THEN a \div b ELSE -((-a) \div b)
GoMod(a, b) == a - b * GoDiv(a, b)
\* the conversion byte(x)
Byte(x) == x % 256

\* utf8.RuneError, what a malformed byte decodes to
RuneError == 65533

IsCont(v, i) == i <= Len(v) /\ v[i] >= 128 /\ v[i] <= 191

\* a range over bytes, not runes
DecodeByte(v, i) == [r |-> v[i], size |-> 1]

\* One step of `for _, c := range v`: the rune that starts at byte i of v and
\* the bytes it takes (utf8.DecodeRuneInString: a malformed or truncated
\* sequence is RuneError of width 1).
DecodeRune(v, i) ==
  LET b0 == v[i]
      b1 == IF i + 1 <= Len(v) THEN v[i + 1] ELSE 0
      bad == [r |-> RuneError, size |-> 1]
      lo == CASE b0 = 224 -> 160 [] b0 = 240 -> 144 [] OTHER -> 128
      hi == CASE b0 = 237 -> 159 [] b0 = 244 -> 143 [] OTHER -> 191
      ok1 == i + 1 <= Len(v) /\ b1 >= lo /\ b1 <= hi
  IN  IF b0 < 128 THEN [r |-> b0, size |-> 1]
      ELSE IF b0 < 194 \/ b0 > 244 THEN bad
      ELSE IF b0 < 224 THEN
        IF ok1 THEN [r |-> (b0 % 32) * 64 + (b1 % 64), size |-> 2] ELSE bad
      ELSE IF b0 < 240 THEN
        IF ok1 /\ IsCont(v, i + 2)
        THEN [r |-> (b0 % 16) * 4096 + (b1 % 64) * 64 + (v[i + 2] % 64), size |-> 3]
        ELSE bad
      ELSE
        IF ok1 /\ IsCont(v, i + 2) /\ IsCont(v, i + 3)
        THEN [r |-> (b0 % 8) * 262144 + (b1 % 64) * 4096 + (v[i + 2] % 64) * 64
                     + (v[i + 3] % 64), size |-> 4]
        ELSE bad

\* bytes.Buffer.WriteRune: the UTF-8 encoding of a rune
EncodeRune(c) ==
  IF c < 128 THEN <<c>>
  ELSE IF c < 2048 THEN <<192 + (c \div 64), 128 + (c % 64)>>
  ELSE IF c < 65536 THEN <<224 + (c \div 4096), 128 + ((c \div 64) % 64), 128 + (c % 64)>>
  ELSE <<240 + (c \div 262144), 128 + ((c \div 4096) % 64), 128 + ((c \div 64) % 64),
         128 + (c % 64)>>

\* const hex = "0123456789abcdef"
Hex == <<48, 49, 50, 51, 52, 53, 54, 55, 56, 57, 97, 98, 99, 100, 101, 102>>

\* a switch that escapes nothing
NoEscape(c) == EncodeRune(c)

\* the switch of appendRawString on one rune: the bytes written for it
EscapeRune(c) ==
  CASE c = 92 -> <<92, 92>>                        \* backslash -> two backslashes
    [] c = 34 -> <<92, 34>>                        \* '"'  -> `\"`
    [] c = 10 -> <<92, 110>>                       \* '\n' -> `\n`
    [] c = 13 -> <<92, 114>>                       \* '\r' -> `\r`
    [] c = 9 -> <<92, 116>>                        \* '\t' -> `\t`
    [] c = 60 -> <<92, 117, 48, 48, 51, 99>>       \* '<'  -> backslash u003c
    [] c = 62 -> <<92, 117, 48, 48, 51, 101>>      \* '>'  -> backslash u003e
    [] c = 38 -> <<92, 117, 48, 48, 50, 54>>       \* '&'  -> backslash u0026
    [] c = 127 -> <<92, 117, 48, 48, 55, 102>>     \* DEL  -> backslash u007f
    [] c = 8232 -> <<92, 117, 50, 48, 50, 56>>     \* U+2028
    [] c = 8233 -> <<92, 117, 50, 48, 50, 57>>     \* U+2029
    [] OTHER ->
         IF c < 32
         THEN <<92, 117, 48, 48, Hex[((c \div 16) % 16) + 1], Hex[(c % 16) + 1]>>
         ELSE EncodeRune(c)

RECURSIVE appendRawStringFrom(_, _, _)
appendRawStringFrom(b, v, i) ==
  IF i > Len(v) THEN b
  ELSE LET d == DecodeRune(v, i)
       IN  appendRawStringFrom(b \o EscapeRune(d.r), v, i + d.size)

\* encodeState.appendRawString, on the output buffer b
appendRawString(b, v) == appendRawStringFrom(b, v, 1)

\* encodeState.appendString
appendString(b, v) == Append(appendRawString(Append(b, 34), v), 34)

\* encodeState.appendBool: "true" / "false"
appendBool(b, v) ==
  IF v THEN b \o <<116, 114, 117, 101>> ELSE b \o <<102, 97, 108, 115, 101>>

RECURSIVE FormatUint(_)
\* strconv.AppendUint(_, v, 10): the decimal digits of v >= 0
FormatUint(v) ==
  IF v < 10 THEN <<48 + v>> ELSE Append(FormatUint(v \div 10), 48 + (v % 10))

\* strconv.AppendInt(_, v, 10)
FormatInt(v) == IF v < 0 THEN <<45>> \o FormatUint(-v) ELSE FormatUint(v)

\* encodeState.appendInt
appendInt(b, v) == b \o FormatInt(v)

\* encodeState.appendUint
appendUint(b, v) == b \o FormatUint(v)

(***************************************************************************)
(* Floating point (appendFloat64, appendFloat32).                          *)
(***************************************************************************)
RECURSIVE Zeros(_)
Zeros(n) == IF n <= 0 THEN <<>> ELSE Append(Zeros(n - 1), 48)

\* strconv.AppendFloat(_, v, 'f', -1, _) for a finite non-zero float with
\* shortest digits s and decimal point position n
FormatFixed(s, n) ==
  IF n <= 0 THEN <<48, 46>> \o Zeros(-n) \o s
  ELSE IF n < Len(s) THEN SubSeq(s, 1, n) \o <<46>> \o SubSeq(s, n + 1, Len(s))
  ELSE s \o Zeros(n - Len(s))

\* strconv.AppendFloat(_, v, 'e', -1, _): d.ddde+XX, the exponent of at least
\* two digits
FormatExp(s, n) ==
  LET exp == n - 1
      mag == IF exp < 0 THEN -exp ELSE exp
  IN  <<s[1]>> \o (IF Len(s) > 1 THEN <<46>> \o SubSeq(s, 2, Len(s)) ELSE <<>>)
      \o <<101, IF exp < 0 THEN 45 ELSE 43>>
      \o (IF mag < 10 THEN <<48>> ELSE <<>>) \o FormatUint(mag)

\* an exponent left as strconv wrote it
KeepExp(b) == b

\* "clean up e-09 to e-9"
CleanExp(b) ==
  LET n == Len(b)
  IN  IF n >= 4 /\ b[n - 3] = 101 /\ b[n - 2] = 45 /\ b[n - 1] = 48
      THEN SubSeq(b, 1, n - 2) \o <<b[n]>>
      ELSE b

\* abs != 0 && (abs < 1e-6 || abs >= 1e21): the value lies in
\* [10^(n-1), 10^n), 1e-6 is 0.1 * 10^-5 and 1e21 is 0.1 * 10^22
UsesExp(v) == v.k = "fin" /\ (v.n <= -6 \/ v.n >= 22)

\* the bytes appendFloat64 / appendFloat32 write for a finite v
FormatFloat(v) ==
  (IF v.neg THEN <<45>> ELSE <<>>)
  \o (IF v.k = "zero" THEN <<48>>
      ELSE IF UsesExp(v) THEN CleanExp(FormatExp(v.s, v.n))
      ELSE FormatFixed(v.s, v.n))

\* encodeState.appendFloat64: the buffer and the error returned
appendFloat64(b, v) ==
  IF v.k \in {"inf", "nan"}
  THEN [buf |-> b, err |-> "unsupported"]
  ELSE [buf |-> b \o FormatFloat(v), err |-> "nil"]

\* encodeState.appendFloat32
appendFloat32(b, v) ==
  IF v.k \in {"inf", "nan"}
  THEN [buf |-> b, err |-> "unsupported"]
  ELSE [buf |-> b \o FormatFloat(v), err |-> "nil"]

(***************************************************************************)
(* Timestamps (appendTime).  A time.Time is an instant with a location:    *)
(* t.loc are the calendar and clock fields Date(), Clock() and             *)
(* Nanosecond() give in its location, t.utc those of t.UTC().              *)
(***************************************************************************)
Digit(x) == Byte(48 + Byte(x))

\* encodeState.appendTime
appendTime(b, flags, t0) ==
  LET t == IF HasFlag(flags, LUTC) THEN t0.utc ELSE t0.loc
      date ==
        IF HasFlag(flags, Ldate)
        THEN <<Digit(GoDiv(t.year, 1000)), Digit(GoMod(GoDiv(t.year, 100), 10)),
               Digit(GoMod(GoDiv(t.year, 10), 10)), Digit(GoMod(t.year, 10)), 45,
               Digit(GoDiv(t.month, 10)), Digit(GoMod(t.month, 10)), 45,
               Digit(GoDiv(t.day, 10)), Digit(GoMod(t.day, 10))>>
        ELSE <<>>
      micro == GoDiv(t.nsec, 1000)
      clock ==
        IF HasFlag(flags, Ltime) \/ HasFlag(flags, Lmicroseconds)
        THEN (IF HasFlag(flags, Ldate) THEN <<84>> ELSE <<>>)
             \o <<Digit(GoDiv(t.hour, 10)), Digit(GoMod(t.hour, 10)), 58,
                  Digit(GoDiv(t.min, 10)), Digit(GoMod(t.min, 10)), 58,
                  Digit(GoDiv(t.sec, 10)), Digit(GoMod(t.sec, 10))>>
             \o (IF HasFlag(flags, Lmicroseconds)
                 THEN <<46, Digit(GoDiv(micro, 100000)),
                        Digit(GoMod(GoDiv(micro, 10000), 10)),
                        Digit(GoMod(GoDiv(micro, 1000), 10)),
                        Digit(GoMod(GoDiv(micro, 100), 10)),
                        Digit(GoMod(GoDiv(micro, 10), 10)), Digit(GoMod(micro, 10))>>
                 ELSE <<>>)
        ELSE <<>>
  IN  b \o date \o clock \o (IF HasFlag(flags, LUTC) THEN <<90>> ELSE <<>>)

(***************************************************************************)
(* appendAny.  enc is whether the state's json.Encoder is set: Encode on   *)
(* the nil *json.Encoder of a state made by new(encodeState) dereferences  *)
(* nil, a run-time panic ("nilptr").  json.Encoder.Encode writes the JSON  *)
(* text of the value followed by a newline, or nothing and an error.       *)
(***************************************************************************)
JsonEncode(b, v) ==
  IF v.t = "nil" THEN [buf |-> b \o <<110, 117, 108, 108, 10>>, err |-> "nil"]   \* null
  ELSE IF v.k = "ok" THEN [buf |-> b \o v.s \o <<10>>, err |-> "nil"]
  ELSE [buf |-> b, err |-> "encode"]

\* encodeState.appendAny: the buffer, and the error returned ("nil" for none)
appendAny(b, enc, v) ==
  CASE v.t = "int" -> [buf |-> appendInt(b, v.n), err |-> "nil"]
    [] v.t = "uint" -> [buf |-> appendUint(b, v.n), err |-> "nil"]
    [] v.t = "string" -> [buf |-> appendString(b, v.s), err |-> "nil"]
    [] v.t = "bool" -> [buf |-> appendBool(b, v.n = 1), err |-> "nil"]
    [] v.t = "float32" -> appendFloat32(b, v)
    [] v.t = "float64" -> appendFloat64(b, v)
    [] OTHER -> IF enc THEN JsonEncode(b, v) ELSE [buf |-> b, err |-> "nilptr"]

(***************************************************************************)
(* Fields, scope nodes and the encode state.                               *)
(*                                                                         *)
(* A Fields map is a function from keys (byte strings) to values.  A scope *)
(* node (mergedFields) is [parent, fields], parent the index of another    *)
(* node or 0 for nil.  A context is named by the node it carries: 0 is a   *)
(* context with no scope (context.Background()).                           *)
(***************************************************************************)
\* var reservedFields: time, level, file, line, message
reservedFields ==
  << <<116, 105, 109, 101>>, <<108, 101, 118, 101, 108>>, <<102, 105, 108, 101>>,
     <<108, 105, 110, 101>>, <<109, 101, 115, 115, 97, 103, 101>> >>

\* the zero keyValue
ZeroKV == [key |-> <<>>, value |-> NilV]

\* new(encodeState), what the Logger's pool makes: no encoder.  id names the
\* allocation (the pointer); 0 is no state.
NewPooledState == [id |-> 0, buf |-> <<>>, kvArr |-> <<>>, kvLen |-> 0, enc |-> FALSE]

\* newEncodeState(): the encoder is set
newEncodeState == [id |-> 0, buf |-> <<>>, kvArr |-> <<>>, kvLen |-> 0, enc |-> TRUE]

\* bytes.Buffer.Reset
Reset(e) == [e EXCEPT !.buf = <<>>]

\* a walk that stops at the nearest scope
NearestOnly(ns, c) == IF c = 0 THEN <<>> ELSE <<ns[c].fields>>

RECURSIVE ChainOf(_, _)
\* the maps appendFields walks from `parent` up: parent.fields,
\* parent.parent.fields, ... until nil
ChainOf(ns, c) == IF c = 0 THEN <<>> ELSE <<ns[c].fields>> \o ChainOf(ns, ns[c].parent)

\* the orders in which `range m` may visit the keys of a map
Perms(S) ==
  {p \in [1..Cardinality(S) -> S] : \A i, j \in 1..Cardinality(S) : i # j => p[i] # p[j]}

RECURSIVE IterOrders(_)
\* one visiting order for each map of a sequence of maps
IterOrders(maps) ==
  IF maps = <<>> THEN {<<>>}
  ELSE {<<p>> \o rest : p \in Perms(DOMAIN Head(maps)), rest \in IterOrders(Tail(maps))}

\* keyValues.Less: Go's string order, byte by byte
RECURSIVE KeyLessFrom(_, _, _)
KeyLessFrom(a, b, i) ==
  IF i > Len(b) THEN FALSE
  ELSE IF i > Len(a) THEN TRUE
  ELSE IF a[i] # b[i] THEN a[i] < b[i]
  ELSE KeyLessFrom(a, b, i + 1)

Less(x, y) == KeyLessFrom(x.key, y.key, 1)

\* growslice, for append of one element to a full slice of keyValue
GrowCap(cap) == IF cap = 0 THEN 1 ELSE 2 * cap

\* kv = append(kv, x) on the slice (arr, len): arr is the backing array, as
\* long as its capacity; shared is whether arr is still e.kv's array, and
\* orig is e.kv's array (written through while it is shared)
AppendKV(sl, x) ==
  IF sl.len < Len(sl.arr)
  THEN LET a == [sl.arr EXCEPT ![sl.len + 1] = x]
       IN  [arr |-> a, len |-> sl.len + 1, shared |-> sl.shared,
            orig |-> IF sl.shared THEN a ELSE sl.orig]
  ELSE [arr |-> [i \in 1..GrowCap(Len(sl.arr)) |->
                   IF i <= sl.len THEN sl.arr[i]
                   ELSE IF i = sl.len + 1 THEN x ELSE ZeroKV],
        len |-> sl.len + 1,
        shared |-> FALSE,
        orig |-> IF sl.shared THEN sl.arr ELSE sl.orig]

RECURSIVE CollectMap(_, _, _, _)
\* for k, v := range m { kv = append(kv, keyValue{k, v}) }, visiting in order it
CollectMap(sl, m, it, j) ==
  IF j > Len(it) THEN sl
  ELSE CollectMap(AppendKV(sl, [key |-> it[j], value |-> m[it[j]]]), m, it, j + 1)

RECURSIVE CollectAll(_, _, _, _)
\* the local fields first, then each ancestor from the nearest to the root
CollectAll(sl, maps, its, i) ==
  IF i > Len(maps) THEN sl
  ELSE CollectAll(CollectMap(sl, maps[i], its[i], 1), maps, its, i + 1)

RECURSIVE InsertStable(_, _)
\* x put into the sorted sequence s behind every element not greater than it
InsertStable(s, x) ==
  IF s = <<>> THEN <<x>>
  ELSE IF Less(x, Head(s)) THEN <<x>> \o s
  ELSE <<Head(s)>> \o InsertStable(Tail(s), x)

\* a sort that leaves the entries as they were collected
Unsorted(s) == s

RECURSIVE StableSort(_)
\* sort.Stable(keyValues(kv)): equal keys keep their order
StableSort(s) ==
  IF s = <<>> THEN <<>>
  ELSE InsertStable(StableSort(SubSeq(s, 1, Len(s) - 1)), s[Len(s)])

IsReserved(key) == \E i \in 1..Len(reservedFields) : reservedFields[i] = key

\* the name a caller key is written under: "field." before a reserved key
EmitKey(b, key) ==
  appendRawString(IF IsReserved(key)
                  THEN appendRawString(b, <<102, 105, 101, 108, 100, 46>>)
                  ELSE b, key)

RECURSIVE EmitFrom(_, _, _, _)
\* the loop `for i, pair := range kv` of appendFields; stops at the first
\* value appendAny fails on
EmitFrom(b, enc, kv, i) ==
  IF i > Len(kv) THEN [buf |-> b, err |-> "nil"]
  ELSE IF i > 1 /\ kv[i - 1].key = kv[i].key THEN EmitFrom(b, enc, kv, i + 1)
  ELSE LET r == appendAny(EmitKey(b \o <<44, 34>>, kv[i].key) \o <<34, 58>>, enc,
                          kv[i].value)
       IN  IF r.err # "nil" THEN r ELSE EmitFrom(r.buf, enc, kv, i + 1)

\* encodeState.appendFields(parent, fields): maps is <<fields>> followed by
\* the chain of parent, its the order each map is ranged over.  Gives the
\* state after the call and the error returned.  On an error (or a panic)
\* the function is left before the scratch entries are cleared and before
\* e.kv is set.
appendFields(e, maps, its) ==
  LET sl0 == CollectAll([arr |-> e.kvArr, len |-> 0, shared |-> TRUE, orig |-> e.kvArr],
                        maps, its, 1)
      kv == StableSort(SubSeq(sl0.arr, 1, sl0.len))
      arr == [i \in 1..Len(sl0.arr) |-> IF i <= sl0.len THEN kv[i] ELSE sl0.arr[i]]
      r == EmitFrom(e.buf, e.enc, kv, 1)
  IN  IF r.err # "nil"
      THEN [e |-> [e EXCEPT !.buf = r.buf,
                            !.kvArr = IF sl0.shared THEN arr ELSE sl0.orig],
            err |-> r.err]
      ELSE [e |-> [e EXCEPT !.buf = r.buf,
                            !.kvArr = [i \in 1..Len(arr) |->
                                         IF i <= sl0.len THEN ZeroKV ELSE arr[i]],
                            !.kvLen = sl0.len],
            err |-> "nil"]

(***************************************************************************)
(* The Logger and its callers.                                             *)
(***************************************************************************)
VARIABLES
  out,        \* Logger.out: the sink
  isDiscard,  \* Logger.isDiscard
  level,      \* Logger.level: the threshold
  prefix,     \* Logger.prefix
  flag,       \* Logger.flag
  mu,         \* Logger.mu: 0 when free, else the goroutine that holds it
  pool,       \* Logger.pool: the bag of encode states put back
  nalloc,     \* encode states allocated so far by pool.New
  nodes,      \* the scope nodes made by With
  pc,         \* where each goroutine is in its call
  call,       \* the call each goroutine is in (or was last in)
  st,         \* the encode state each goroutine holds
  ret,        \* how each goroutine's last call ended
  sinkData,   \* the bytes the buffer sink has received, in order
  writes,     \* the Write calls made on sinks, in order
  exited,     \* os.Exit was called
  ncalls,     \* logging calls started
  unit        \* the last call made on an encodeState directly, as the tests do

vars == <<out, isDiscard, level, prefix, flag, mu, pool, nalloc, nodes, pc, call, st,
          ret, sinkData, writes, exited, ncalls, unit>>

Procs == 1..NumProcs

\* The sinks: a buffer that takes every byte, io.Discard, a writer whose
\* Write fails, and one that takes only part of what it is given.
Sinks == {"buf", "discard", "bad", "short"}

\* Logger.Flags (log.go): "TODO: implement me", returns 0
Flags == 0

\* Logger.Prefix (log.go): "TODO: implement me", returns ""
Prefix == <<>>

\* the file name when Lshortfile is set: the loop runs i from len(file)-1
\* down to 1 (0-based) and cuts behind the first '/' it meets
RECURSIVE ShortFileFrom(_, _)
ShortFileFrom(file, j) ==
  IF j <= 1 THEN file
  ELSE IF file[j] = 47 THEN SubSeq(file, j + 1, Len(file))
  ELSE ShortFileFrom(file, j - 1)

ShortFile(file) == ShortFileFrom(file, Len(file))

\* OutputContext from state.WriteByte('{') to the message's closing quote
\* and the file and line fields: the bytes in the buffer before appendFields
RenderHead(c, lflag) ==
  LET flags == Flags
      b1 == IF HasFlag(flags, Ldate) \/ HasFlag(flags, Ltime) \/ HasFlag(flags, Lmicroseconds)
            THEN appendTime(appendString(<<123>>, <<116, 105, 109, 101>>) \o <<58, 34>>,
                            flags, c.now) \o <<34, 44>>
            ELSE <<123>>
      b2 == appendString(appendString(b1, <<108, 101, 118, 101, 108>>) \o <<58>>,
                         LevelString(c.level)) \o <<44>>
      b3 == appendString(b2, <<109, 101, 115, 115, 97, 103, 101>>) \o <<58, 34>>
      b4 == (IF ~HasFlag(Flags, Lmsgprefix)
             THEN appendRawString(appendRawString(b3, Prefix), c.msg)
             ELSE appendRawString(appendRawString(b3, c.msg), Prefix)) \o <<34>>
      file == IF ~c.caller.ok THEN <<63, 63, 63>>
              ELSE IF HasFlag(lflag, Lshortfile) THEN ShortFile(c.caller.file)
              ELSE c.caller.file
      line == IF ~c.caller.ok THEN 0 ELSE c.caller.line
  IN  IF HasFlag(Flags, Lshortfile) \/ HasFlag(Flags, Llongfile)
      THEN appendInt(appendString(appendString(appendString(b4 \o <<44>>,
                        <<102, 105, 108, 101>>) \o <<58>>, file) \o <<44>>,
                        <<108, 105, 110, 101>>) \o <<58>>, line)
      ELSE b4

\* OutputContext behind appendFields, r what appendFields gave: the error is
\* dropped and '}' and '\n' are written; a nil dereference in appendAny
\* panics out of the call (fault) before that.
CloseRecord(r) ==
  IF r.err = "nilptr"
  THEN [e |-> r.e, fault |-> TRUE, ferr |-> r.err]
  ELSE [e |-> [r.e EXCEPT !.buf = r.e.buf \o <<125, 10>>], fault |-> FALSE, ferr |-> r.err]

\* OutputContext from state.Reset() to state.WriteByte('\n'): the state with
\* the record in its buffer
Render(e, c, ns, lflag, its) ==
  CloseRecord(appendFields([Reset(e) EXCEPT !.buf = RenderHead(c, lflag)],
                           <<c.fields>> \o ChainOf(ns, c.ctx), its))

\* a check that compares the wrong way round
AboveThreshold(lv, threshold) == lv > threshold

\* `level < l.Level()`: the call is dropped
BelowThreshold(lv, threshold) == lv < threshold

\* a mutex that excludes nobody
NeverBlocks(m) == TRUE

\* l.mu.Lock() can return: nobody holds the mutex
CanLock(m) == m = 0

\* the wrappers that return at once when isDiscard is set
ChecksDiscard(op) == op \in {"Leveled", "Print", "Fatal"}

\* how the wrapper ends once OutputContext has returned
AfterOutput(op) ==
  CASE op \in {"FatalContext", "Fatal", "StdFatal"} -> "exit"
    [] op \in {"PanicContext", "Panic"} -> "panic"
    [] OTHER -> "returned"

\* a WriteTo that reports no failure
NoWriteErr(sink, n) == "nil"

\* what the sink takes of the n bytes of a Write, and the error of WriteTo
Taken(sink, n) == IF sink = "bad" THEN 0 ELSE IF sink = "short" THEN n \div 2 ELSE n
WriteErr(sink, n) ==
  IF sink = "bad" THEN "write error"
  ELSE IF Taken(sink, n) # n THEN "short write" ELSE "nil"

\* the bytes of a Write the buffer sink has stored when the Write is under way
FirstPart(b) == SubSeq(b, 1, (Len(b) + 1) \div 2)
RestPart(b) == SubSeq(b, (Len(b) + 1) \div 2 + 1, Len(b))

NoFields == <<>>
NoCaller == [file |-> <<>>, line |-> 0, ok |-> FALSE]
Epoch == [year |-> 1970, month |-> 1, day |-> 1, hour |-> 0, min |-> 0, sec |-> 0,
          nsec |-> 0]
NoCall ==
  [op |-> "none", level |-> 0, msg |-> <<>>, fields |-> NoFields, ctx |-> 0,
   now |-> [loc |-> Epoch, utc |-> Epoch], caller |-> NoCaller,
   thr |-> 0, sink |-> "none", wrote |-> FALSE, err |-> "none"]

\* a call of wrapper op as it starts
MkCall(op, lv, msg, fields, ctx, now, caller) ==
  [op |-> op, level |-> lv, msg |-> msg, fields |-> fields, ctx |-> ctx,
   now |-> now, caller |-> caller,
   thr |-> 0, sink |-> "none", wrote |-> FALSE, err |-> "none"]

\* no call on an encodeState yet; e is the state the test made
NoUnit ==
  [fn |-> "none", s |-> <<>>, v |-> NilV, flags |-> 0, now |-> [loc |-> Epoch, utc |-> Epoch],
   e |-> newEncodeState, err |-> "nil"]

\* New(o, p, f): level, isDiscard, mu and the pool are zero values
InitLogger(os, ps, fs) ==
  /\ out \in os
  /\ prefix \in ps
  /\ flag \in fs
  /\ isDiscard = FALSE
  /\ level = LevelDebug
  /\ mu = 0
  /\ pool = EmptyBag
  /\ nalloc = 0
  /\ nodes = <<>>
  /\ pc = [p \in Procs |-> "idle"]
  /\ call = [p \in Procs |-> NoCall]
  /\ st = [p \in Procs |-> NewPooledState]
  /\ ret = [p \in Procs |-> "none"]
  /\ sinkData = <<>>
  /\ writes = <<>>
  /\ exited = FALSE
  /\ ncalls = 0
  /\ unit = NoUnit

\* Logger.SetOutput(w)
SetOutput(w) ==
  /\ ~exited
  /\ CanLock(mu)
  /\ out' = w
  /\ isDiscard' = (w = "discard")
  /\ UNCHANGED <<level, prefix, flag, mu, pool, nalloc, nodes, pc, call, st, ret,
                 sinkData, writes, exited, ncalls, unit>>

\* Logger.SetLevel(lv)
SetLevel(lv) ==
  /\ ~exited
  /\ CanLock(mu)
  /\ level' = lv
  /\ UNCHANGED <<out, isDiscard, prefix, flag, mu, pool, nalloc, nodes, pc, call, st,
                 ret, sinkData, writes, exited, ncalls, unit>>

\* a With that also writes the fields into the parent's node
WithShared(parent, fields) ==
  /\ ~exited
  /\ Len(nodes) < MaxNodes
  /\ nodes' = Append([i \in 1..Len(nodes) |->
                        IF i = parent THEN [nodes[i] EXCEPT !.fields = fields @@ nodes[i].fields]
                        ELSE nodes[i]],
                     [parent |-> parent, fields |-> fields])
  /\ UNCHANGED <<out, isDiscard, level, prefix, flag, mu, pool, nalloc, pc, call, st,
                 ret, sinkData, writes, exited, ncalls, unit>>

\* With(parent, fields): a new node whose parent is contextFields(parent)
With(parent, fields) ==
  /\ ~exited
  /\ Len(nodes) < MaxNodes
  /\ nodes' = Append(nodes, [parent |-> parent, fields |-> fields])
  /\ UNCHANGED <<out, isDiscard, level, prefix, flag, mu, pool, nalloc, pc, call, st,
                 ret, sinkData, writes, exited, ncalls, unit>>

\* A goroutine enters a wrapper.  Those that check isDiscard return at once
\* when it is set; the others go on to OutputContext.
Start(p, c) ==
  /\ ~exited
  /\ pc[p] = "idle"
  /\ ncalls < MaxCalls
  /\ ncalls' = ncalls + 1
  /\ call' = [call EXCEPT ![p] = c]
  /\ IF ChecksDiscard(c.op) /\ isDiscard
     THEN /\ ret' = [ret EXCEPT ![p] = "returned"]
          /\ pc' = pc
     ELSE /\ ret' = [ret EXCEPT ![p] = "none"]
          /\ pc' = [pc EXCEPT ![p] = "gate"]
  /\ UNCHANGED <<out, isDiscard, level, prefix, flag, mu, pool, nalloc, nodes, st,
                 sinkData, writes, exited, unit>>

\* OutputContext, `if level < l.Level() { return nil }`; Level() takes the
\* mutex for the read.  A dropped call returns to its wrapper, which ends.
Gate(p) ==
  /\ ~exited
  /\ pc[p] = "gate"
  /\ CanLock(mu)
  /\ IF BelowThreshold(call[p].level, level)
     THEN /\ call' = [call EXCEPT ![p].thr = level, ![p].err = "nil"]
          /\ pc' = [pc EXCEPT ![p] = "idle"]
          /\ ret' = [ret EXCEPT ![p] = AfterOutput(call[p].op)]
          /\ exited' = (AfterOutput(call[p].op) = "exit")
     ELSE /\ call' = [call EXCEPT ![p].thr = level]
          /\ pc' = [pc EXCEPT ![p] = "encode"]
          /\ UNCHANGED <<ret, exited>>
  /\ UNCHANGED <<out, isDiscard, level, prefix, flag, mu, pool, nalloc, nodes, st,
                 sinkData, writes, ncalls, unit>>

\* OutputContext from l.pool.Get() to state.WriteByte('\n'), e the state Get
\* gave (fresh: made by pool.New) and r the rendering.  A panic in appendAny
\* leaves the call through the deferred l.pool.Put(state).
Encoded(p, e, fresh, r) ==
  /\ nalloc' = IF fresh THEN nalloc + 1 ELSE nalloc
  /\ IF r.fault
     THEN /\ pool' = (IF fresh THEN pool ELSE pool (-) SetToBag({e})) (+) SetToBag({r.e})
          /\ pc' = [pc EXCEPT ![p] = "idle"]
          /\ ret' = [ret EXCEPT ![p] = "fault"]
          /\ UNCHANGED st
     ELSE /\ pool' = IF fresh THEN pool ELSE pool (-) SetToBag({e})
          /\ st' = [st EXCEPT ![p] = r.e]
          /\ pc' = [pc EXCEPT ![p] = "lock"]
          /\ UNCHANGED ret
  /\ UNCHANGED <<out, isDiscard, level, prefix, flag, mu, nodes, call, sinkData,
                 writes, exited, ncalls, unit>>

\* a Get that hands the first state to every caller
SharedGet(pl, n) == {[NewPooledState EXCEPT !.id = 1]}

\* sync.Pool.Get: any state of the pool, or a new one from pool.New
PoolGet(pl, n) == BagToSet(pl) \cup {[NewPooledState EXCEPT !.id = n + 1]}

EncodeRecord(p) ==
  /\ ~exited
  /\ pc[p] = "encode"
  /\ \E its \in IterOrders(<<call[p].fields>> \o ChainOf(nodes, call[p].ctx)) :
       \E e \in PoolGet(pool, nalloc) :
         Encoded(p, e, e.id = nalloc + 1, Render(e, call[p], nodes, flag, its))

\* l.mu.Lock(); state.WriteTo(l.out) calls l.out.Write with the whole
\* buffer: the Write is under way, the buffer sink has stored its first part
LockWrite(p) ==
  /\ ~exited
  /\ pc[p] = "lock"
  /\ CanLock(mu)
  /\ mu' = p
  /\ pc' = [pc EXCEPT ![p] = "write"]
  /\ call' = [call EXCEPT ![p].sink = out, ![p].wrote = TRUE]
  /\ writes' = Append(writes, [p |-> p, sink |-> out, data |-> st[p].buf,
                               level |-> call[p].level, thr |-> call[p].thr,
                               thrNow |-> level, fields |-> call[p].fields,
                               ctx |-> call[p].ctx, msg |-> call[p].msg])
  /\ sinkData' = IF out = "buf" THEN sinkData \o FirstPart(st[p].buf) ELSE sinkData
  /\ UNCHANGED <<out, isDiscard, level, prefix, flag, pool, nalloc, nodes, st, ret,
                 exited, ncalls, unit>>

\* The Write returns; WriteTo gives its error; the deferred l.mu.Unlock()
\* and l.pool.Put(state) run; OutputContext returns and the wrapper ends.
WriteDone(p) ==
  LET b == st[p].buf
      s == call[p].sink
      e == [st[p] EXCEPT !.buf = SubSeq(b, Taken(s, Len(b)) + 1, Len(b))]
  IN  /\ ~exited
      /\ pc[p] = "write"
      /\ sinkData' = IF s = "buf" THEN sinkData \o RestPart(b) ELSE sinkData
      /\ mu' = 0
      /\ pool' = pool (+) SetToBag({e})
      /\ call' = [call EXCEPT ![p].err = WriteErr(s, Len(b))]
      /\ pc' = [pc EXCEPT ![p] = "idle"]
      /\ ret' = [ret EXCEPT ![p] = AfterOutput(call[p].op)]
      /\ exited' = (AfterOutput(call[p].op) = "exit")
      /\ st' = [st EXCEPT ![p] = NewPooledState]
      /\ UNCHANGED <<out, isDiscard, level, prefix, flag, nalloc, nodes, writes, ncalls, unit>>

(***************************************************************************)
(* The inputs the specifications draw from.                                *)
(***************************************************************************)
KeyA == <<97>>                                                \* "a"
KeyB == <<98>>                                                \* "b"
KeyTime == <<116, 105, 109, 101>>                             \* "time"
KeyFieldTime == <<102, 105, 101, 108, 100, 46, 116, 105, 109, 101>> \* "field.time"

\* []int{1}, which encoding/json renders as [1]
Compound == OtherV("ok", <<91, 49, 93>>)
\* a value encoding/json rejects, such as a channel
Unencodable == OtherV("bad", <<>>)
NaN == Float64V("nan", FALSE, <<>>, 0)

\* 2001-02-03 04:05:06.123456789 UTC, read in a zone one hour east of UTC
Clock0 ==
  [loc |-> [year |-> 2001, month |-> 2, day |-> 3, hour |-> 5, min |-> 5, sec |-> 6,
            nsec |-> 123456789],
   utc |-> [year |-> 2001, month |-> 2, day |-> 3, hour |-> 4, min |-> 5, sec |-> 6,
            nsec |-> 123456789]]

\* runtime.Caller: /a/x.go:7
Caller0 == [file |-> <<47, 97, 47, 120, 46, 103, 111>>, line |-> 7, ok |-> TRUE]

MsgHi == <<104, 105>>                                         \* "hi"

\* the wrappers that take a context and fields, with the level each logs at
CtxOps ==
  {<<"Leveled", LevelInfo>>, <<"FatalContext", LevelFatal>>, <<"PanicContext", LevelPanic>>}

\* the wrappers of log.go: no context, no fields
PlainOps ==
  {<<"Print", LevelNo>>, <<"Output", LevelNo>>, <<"Fatal", LevelFatal>>,
   <<"Panic", LevelPanic>>}

\* the calls a goroutine may make, given the scope nodes there are
CallsOf(ns, ops, plain, msgs, fieldSets) ==
  {MkCall(o[1], o[2], m, f, c, Clock0, Caller0) :
     o \in ops, m \in msgs, f \in fieldSets, c \in 0..Len(ns)}
  \cup {MkCall(o[1], o[2], m, NoFields, 0, Clock0, Caller0) : o \in plain, m \in msgs}

(***************************************************************************)
(* Spec: goroutines logging through one Logger while its level and output  *)
(* are set.                                                                *)
(***************************************************************************)
SpecLevels == {LevelDebug, LevelError, LevelDisabled}
SpecSinks == {"buf", "discard"}
SpecFields == {NoFields, KeyA :> Compound}

\* var std = New(os.Stderr, "", LstdFlags), with a buffer for os.Stderr
Init == InitLogger({"buf"}, {<<>>}, {Ldate + Ltime})

Next ==
  \/ \E w \in SpecSinks : SetOutput(w)
  \/ \E lv \in SpecLevels : SetLevel(lv)
  \/ \E p \in Procs, c \in CallsOf(<<>>, CtxOps, PlainOps, {MsgHi}, SpecFields) : Start(p, c)
  \/ \E p \in Procs : Gate(p)
  \/ \E p \in Procs : EncodeRecord(p)
  \/ \E p \in Procs : LockWrite(p)
  \/ \E p \in Procs : WriteDone(p)

Spec == Init /\ [][Next]_vars

(***************************************************************************)
(* SpecWrite: goroutines logging at one level through one Logger whose     *)
(* level and output are set meanwhile.                                     *)
(***************************************************************************)
WriteLevels == {LevelDebug, LevelError}
WriteFields == {NoFields, KeyA :> IntV(1), KeyA :> Compound}

NextWrite ==
  \/ \E w \in SpecSinks : SetOutput(w)
  \/ \E lv \in WriteLevels : SetLevel(lv)
  \/ \E p \in Procs, c \in CallsOf(<<>>, {<<"Leveled", LevelInfo>>}, {}, {MsgHi}, WriteFields) :
       Start(p, c)
  \/ \E p \in Procs : Gate(p)
  \/ \E p \in Procs : EncodeRecord(p)
  \/ \E p \in Procs : LockWrite(p)
  \/ \E p \in Procs : WriteDone(p)

SpecWrite == Init /\ [][NextWrite]_vars

(***************************************************************************)
(* Reading a record back: JSON syntax (RFC 8259) over bytes.  The parsers  *)
(* take the index of the first byte of what they read and give the index   *)
(* behind it, or 0 when the text is not what they read.                    *)
(***************************************************************************)
At(b, i) == IF i >= 1 /\ i <= Len(b) THEN b[i] ELSE -1

IsDigit(c) == c >= 48 /\ c <= 57
IsHexDigit(c) == IsDigit(c) \/ (c >= 97 /\ c <= 102) \/ (c >= 65 /\ c <= 70)
IsWs(c) == c \in {32, 9, 10, 13}

RECURSIVE SkipWs(_, _)
SkipWs(b, i) == IF IsWs(At(b, i)) THEN SkipWs(b, i + 1) ELSE i

RECURSIVE SkipDigits(_, _)
SkipDigits(b, i) == IF IsDigit(At(b, i)) THEN SkipDigits(b, i + 1) ELSE i

RECURSIVE StringBody(_, _)
\* from behind the opening quote to behind the closing one
StringBody(b, j) ==
  LET c == At(b, j)
  IN  IF c = 34 THEN j + 1
      ELSE IF c < 32 THEN 0
      ELSE IF c # 92 THEN StringBody(b, j + 1)
      ELSE IF At(b, j + 1) \in {34, 92, 47, 98, 102, 110, 114, 116} THEN StringBody(b, j + 2)
      ELSE IF At(b, j + 1) = 117 /\ \A d \in 2..5 : IsHexDigit(At(b, j + d))
      THEN StringBody(b, j + 6)
      ELSE 0

JSONString(b, i) == IF At(b, i) = 34 THEN StringBody(b, i + 1) ELSE 0

JSONNumber(b, i) ==
  LET i1 == IF At(b, i) = 45 THEN i + 1 ELSE i
      i2 == IF ~IsDigit(At(b, i1)) THEN 0
            ELSE IF At(b, i1) = 48 THEN i1 + 1 ELSE SkipDigits(b, i1)
      i3 == IF i2 = 0 THEN 0
            ELSE IF At(b, i2) # 46 THEN i2
            ELSE IF IsDigit(At(b, i2 + 1)) THEN SkipDigits(b, i2 + 1) ELSE 0
      e1 == IF At(b, i3 + 1) \in {43, 45} THEN i3 + 2 ELSE i3 + 1
  IN  IF i3 = 0 THEN 0
      ELSE IF At(b, i3) \notin {101, 69} THEN i3
      ELSE IF IsDigit(At(b, e1)) THEN SkipDigits(b, e1) ELSE 0

JSONLiteral(b, i, word) ==
  IF \A d \in 1..Len(word) : At(b, i + d - 1) = word[d] THEN i + Len(word) ELSE 0

RECURSIVE JSONValue(_, _)
RECURSIVE JSONElements(_, _)
RECURSIVE JSONMembers(_, _)

\* value (, value)* ] with i at the first value
JSONElements(b, i) ==
  LET j == JSONValue(b, i)
      k == SkipWs(b, j)
  IN  IF j = 0 THEN 0
      ELSE IF At(b, k) = 93 THEN k + 1
      ELSE IF At(b, k) = 44 THEN JSONElements(b, SkipWs(b, k + 1))
      ELSE 0

\* string : value (, string : value)* } with i at the first string
JSONMembers(b, i) ==
  LET j == JSONString(b, i)
      c == SkipWs(b, j)
      v == IF j = 0 \/ At(b, c) # 58 THEN 0 ELSE JSONValue(b, SkipWs(b, c + 1))
      k == SkipWs(b, v)
  IN  IF v = 0 THEN 0
      ELSE IF At(b, k) = 125 THEN k + 1
      ELSE IF At(b, k) = 44 THEN JSONMembers(b, SkipWs(b, k + 1))
      ELSE 0

JSONValue(b, i) ==
  LET c == At(b, i)
  IN  IF c = 34 THEN JSONString(b, i)
      ELSE IF c = 45 \/ IsDigit(c) THEN JSONNumber(b, i)
      ELSE IF c = 116 THEN JSONLiteral(b, i, <<116, 114, 117, 101>>)
      ELSE IF c = 102 THEN JSONLiteral(b, i, <<102, 97, 108, 115, 101>>)
      ELSE IF c = 110 THEN JSONLiteral(b, i, <<110, 117, 108, 108>>)
      ELSE IF c = 91
      THEN (IF At(b, SkipWs(b, i + 1)) = 93 THEN SkipWs(b, i + 1) + 1
            ELSE JSONElements(b, SkipWs(b, i + 1)))
      ELSE IF c = 123
      THEN (IF At(b, SkipWs(b, i + 1)) = 125 THEN SkipWs(b, i + 1) + 1
            ELSE JSONMembers(b, SkipWs(b, i + 1)))
      ELSE 0

\* b is one JSON object followed by one newline and nothing else
IsObjectLine(b) ==
  /\ Len(b) >= 3
  /\ b[1] = 123
  /\ b[Len(b)] = 10
  /\ JSONValue(SubSeq(b, 1, Len(b) - 1), 1) = Len(b)

RECURSIVE MembersFrom(_, _, _)
\* the members of the top-level object that can be read, i at the first
\* name: raw name (between its quotes) and raw value.  Reading stops where
\* the text stops being JSON.
MembersFrom(b, i, acc) ==
  LET j == JSONString(b, i)
      c == SkipWs(b, j)
      s == SkipWs(b, c + 1)
      v == IF j = 0 \/ At(b, c) # 58 THEN 0 ELSE JSONValue(b, s)
      k == SkipWs(b, v)
      got == Append(acc, [key |-> SubSeq(b, i + 1, j - 2), val |-> SubSeq(b, s, v - 1)])
  IN  IF v = 0 THEN acc
      ELSE IF At(b, k) = 44 THEN MembersFrom(b, SkipWs(b, k + 1), got)
      ELSE got

RecordMembers(b) == IF At(b, 1) = 123 THEN MembersFrom(b, SkipWs(b, 2), <<>>) ELSE <<>>

\* how many bytes of b are c
Count(b, c) == Cardinality({i \in 1..Len(b) : b[i] = c})

(***************************************************************************)
(* SpecEnc: one goroutine logging records with local fields under scopes   *)
(* made by With, to a buffer, at a threshold every call passes.            *)
(***************************************************************************)
MsgQuote == <<34, 10>>                                        \* a quote and a newline

EncFields ==
  {NoFields,
   KeyA :> IntV(1),
   KeyA :> NaN @@ KeyTime :> StringV(<<120>>),
   KeyTime :> StringV(<<120>>),
   KeyTime :> IntV(1) @@ KeyFieldTime :> IntV(2),
   KeyA :> Compound,
   KeyA :> Unencodable}

EncScopes == {KeyA :> IntV(2), KeyA :> IntV(3) @@ KeyB :> IntV(2)}

InitEnc == InitLogger({"buf"}, {<<>>}, {Ldate + Ltime, Lshortfile + Lmsgprefix})

NextEnc ==
  \/ \E par \in 0..Len(nodes), f \in EncScopes : With(par, f)
  \/ \E c \in CallsOf(nodes, {<<"OutputContext", LevelInfo>>}, {}, {MsgHi, MsgQuote},
                      EncFields) : Start(1, c)
  \/ Gate(1)
  \/ EncodeRecord(1)
  \/ LockWrite(1)
  \/ WriteDone(1)

SpecEnc == InitEnc /\ [][NextEnc]_vars

(***************************************************************************)
(* What a record is expected to carry, told from the call that wrote it.   *)
(***************************************************************************)
RECURSIVE MostLocalFrom(_, _, _)
\* the value of key k in the first map of maps, from index i on, that has it
MostLocalFrom(maps, k, i) ==
  IF k \in DOMAIN maps[i] THEN maps[i][k] ELSE MostLocalFrom(maps, k, i + 1)

\* the local fields of a write followed by its scope chain, nearest first
MapsOf(w) == <<w.fields>> \o ChainOf(nodes, w.ctx)

KeysOf(maps) == UNION {DOMAIN maps[i] : i \in 1..Len(maps)}

\* a value JSON has a rendering for
Renderable(v) ==
  \/ v.t \in {"int", "uint", "string", "bool", "nil"}
  \/ v.t \in {"float32", "float64"} /\ v.k \notin {"inf", "nan"}
  \/ v.t = "other" /\ v.k = "ok"

\* a compound value the general-purpose encoder has a rendering for
IsCompound(v) == v.t = "other" /\ v.k = "ok"

IsOther(v) == v.t = "other"

\* the local fields of goroutine p's call hold a compound value
CarriesCompound(p) == \E k \in DOMAIN call[p].fields : IsCompound(call[p].fields[k])
CarriesOther(p) == \E k \in DOMAIN call[p].fields : IsOther(call[p].fields[k])

\* the name a caller key is expected under
ExpectedName(k) ==
  IF k \in {<<116, 105, 109, 101>>, <<108, 101, 118, 101, 108>>, <<102, 105, 108, 101>>,
            <<108, 105, 110, 101>>, <<109, 101, 115, 115, 97, 103, 101>>}
  THEN <<102, 105, 101, 108, 100, 46>> \o k
  ELSE k

RECURSIVE DigitsValue(_, _, _)
DigitsValue(raw, i, acc) ==
  IF i > Len(raw) THEN acc ELSE DigitsValue(raw, i + 1, 10 * acc + (raw[i] - 48))

\* the integer a JSON number without fraction and exponent denotes
IsIntText(raw) ==
  /\ raw # <<>>
  /\ JSONNumber(raw, 1) = Len(raw) + 1
  /\ \A i \in 1..Len(raw) : IsDigit(raw[i]) \/ (i = 1 /\ raw[i] = 45)

IntOf(raw) == IF raw[1] = 45 THEN -DigitsValue(raw, 2, 0) ELSE DigitsValue(raw, 1, 0)

\* the JSON text raw denotes the value v (v an integer, a string of plain
\* letters, or a compound value given by its JSON text)
Denotes(raw, v) ==
  CASE v.t \in {"int", "uint"} -> IsIntText(raw) /\ IntOf(raw) = v.n
    [] v.t = "string" -> raw = <<34>> \o v.s \o <<34>>
    [] v.t = "other" -> raw = v.s
    [] OTHER -> FALSE

\* the members of a record with a given name
Named(ms, name) == {m \in 1..Len(ms) : ms[m].key = name}

\* the last Write of goroutine p
LastWrite(p) ==
  writes[CHOOSE i \in 1..Len(writes) :
           writes[i].p = p /\ \A j \in (i + 1)..Len(writes) : writes[j].p # p]

\* goroutine p has finished a call
Finished(p) == pc[p] = "idle" /\ call[p].op # "none" /\ ret[p] # "none"

\* ... which went through OutputContext's level check
Checked(p) == Finished(p) /\ (call[p].err # "none" \/ ret[p] = "fault")

\* ... and was not dropped there
Passed(p) == Checked(p) /\ call[p].level >= call[p].thr

\* C1: every record carries exactly one caller field per distinct key of the
\* local fields and the scope chain (for the values that have a rendering),
\* and its value is the most local definition of the key.
C1_MostLocalWins ==
  \A i \in 1..Len(writes) :
    LET maps == MapsOf(writes[i])
        ms == RecordMembers(writes[i].data)
    IN  \A k \in KeysOf(maps) :
          Renderable(MostLocalFrom(maps, k, 1))
          => /\ Cardinality(Named(ms, ExpectedName(k))) = 1
             /\ \A m \in Named(ms, ExpectedName(k)) :
                  Denotes(ms[m].val, MostLocalFrom(maps, k, 1))

\* C2: every caller attribute named time, level, file, line or message is in
\* the record under field.<name> with its own value, the built-in level and
\* message fields keep what the encoder wrote, and the call returns no error.
C2_ReservedRenamed ==
  \A i \in 1..Len(writes) :
    LET maps == MapsOf(writes[i])
        ms == RecordMembers(writes[i].data)
    IN  \A k \in KeysOf(maps) :
          (ExpectedName(k) # k /\ Renderable(MostLocalFrom(maps, k, 1)))
          => /\ \E m \in Named(ms, ExpectedName(k)) :
                  Denotes(ms[m].val, MostLocalFrom(maps, k, 1))
             /\ \E m \in Named(ms, <<108, 101, 118, 101, 108>>) :
                  ms[m].val = <<34>> \o LevelString(writes[i].level) \o <<34>>
             /\ Named(ms, <<109, 101, 115, 115, 97, 103, 101>>) # {}
             /\ \A p \in Procs :
                  (Finished(p) /\ call[p].wrote /\ LastWrite(p) = writes[i])
                  => call[p].err = "nil"

\* C3: the top-level keys of every record are pairwise distinct.
C3_KeysDistinct ==
  \A i \in 1..Len(writes) :
    LET ms == RecordMembers(writes[i].data)
    IN  \A m, n \in 1..Len(ms) : m # n => ms[m].key # ms[n].key

\* C4: when OutputContext has written to the sink and returned nil, the
\* bytes it wrote are one valid JSON object followed by a newline.
C4_ValidObjectLine ==
  \A p \in Procs :
    (Finished(p) /\ call[p].wrote /\ call[p].err = "nil")
    => IsObjectLine(LastWrite(p).data)

\* C5: each record is exactly one line, its only newline its last byte, and
\* a call with a compound attribute value, rendered by the general-purpose
\* encoder, writes such a record too.
C5_OneLine ==
  /\ \A i \in 1..Len(writes) :
       /\ Count(writes[i].data, 10) = 1
       /\ writes[i].data[Len(writes[i].data)] = 10
  /\ \A p \in Procs : (Passed(p) /\ CarriesCompound(p)) => call[p].wrote

\* C10: a call that carries a float attribute without a rendering (NaN or an
\* infinity), and no compound value, returns a non-nil error.
C10_ErrorReturned ==
  \A p \in Procs :
    (Passed(p) /\ ~CarriesOther(p)
       /\ \E k \in DOMAIN call[p].fields : ~Renderable(call[p].fields[k]))
    => (ret[p] = "returned" /\ call[p].err \notin {"nil", "none"})

\* C6: a call to OutputContext writes a record iff its level is at or above
\* the threshold it was checked against; a call below it returns nil.
C6_WritesIffAtOrAbove ==
  \A p \in Procs :
    Checked(p)
    => /\ call[p].wrote <=> call[p].level >= call[p].thr
       /\ call[p].level < call[p].thr => call[p].err = "nil"

\* C7: a FatalContext or PanicContext call (here: one without fields) that
\* has ended has written its record and has exited or panicked, whatever
\* the threshold and the sink.
C7_TerminalWritesFirst ==
  \A p \in Procs :
    (Finished(p) /\ call[p].op \in {"FatalContext", "PanicContext"}
       /\ call[p].fields = NoFields)
    => (call[p].wrote /\ ret[p] \in {"exit", "panic"})

\* write i is under way: its goroutine is still inside Write
InFlight(i) ==
  pc[writes[i].p] = "write" /\ \A j \in (i + 1)..Len(writes) : writes[j].p # writes[i].p

RECURSIVE Received(_)
\* what the buffer sink must hold if the first i Writes came one after the
\* other: every record whole, the one under way up to where it has got
Received(i) ==
  IF i = 0 THEN <<>>
  ELSE Received(i - 1)
       \o (IF writes[i].sink # "buf" THEN <<>>
           ELSE IF InFlight(i) THEN FirstPart(writes[i].data)
           ELSE writes[i].data)

\* C8: the sink receives whole records only: what it holds is the records
\* one after the other, only the last Write may be under way, and the
\* goroutine inside Write holds the mutex.
C8_WholeRecords ==
  /\ sinkData = Received(Len(writes))
  /\ \A i \in 1..Len(writes) : InFlight(i) => i = Len(writes)
  /\ \A p \in Procs : pc[p] = "write" => mu = p

\* one goroutine is inside Write on the buffer while another has rendered
\* its record and waits for the mutex
C8_WriterAndWaiter ==
  \E p, q \in Procs :
    /\ p # q
    /\ pc[p] = "write" /\ call[p].sink = "buf" /\ sinkData # <<>>
    /\ pc[q] = "lock"

\* C9 as stated: no record is written at a level the threshold in force at
\* the moment of the write does not allow.
C9_AllowedAtWrite ==
  \A i \in 1..Len(writes) : writes[i].level >= writes[i].thrNow

\* C9 as the code has it: a record is written only at a level the threshold
\* read by the call's level check allowed, and while a goroutine is inside
\* Write it holds the mutex and the sink is the one it writes to.
C9_AllowedAtCheck ==
  /\ \A i \in 1..Len(writes) : writes[i].level >= writes[i].thr
  /\ \A p \in Procs : pc[p] = "write" => (mu = p /\ out = call[p].sink)

\* SetLevel raised the threshold between a call's check and its write
C9_RaisedBetween ==
  \E i \in 1..Len(writes) :
    writes[i].level >= writes[i].thr /\ writes[i].level < writes[i].thrNow

(***************************************************************************)
(* SpecSink: goroutines calling OutputContext while the output is set to   *)
(* sinks that take everything, fail, or take part of a Write.              *)
(***************************************************************************)
SinkFields == {NoFields, KeyA :> IntV(1)}

NextSink ==
  \/ \E w \in Sinks : SetOutput(w)
  \/ \E p \in Procs, c \in CallsOf(<<>>, {<<"OutputContext", LevelInfo>>}, {}, {MsgHi},
                                   SinkFields) : Start(p, c)
  \/ \E p \in Procs : Gate(p)
  \/ \E p \in Procs : EncodeRecord(p)
  \/ \E p \in Procs : LockWrite(p)
  \/ \E p \in Procs : WriteDone(p)

SpecSink == Init /\ [][NextSink]_vars

\* C11: a call of OutputContext whose Write failed returns the sink's error,
\* one whose Write was short returns a short-write error, a Write that took
\* everything gives nil; and every Write that reaches a sink is the first
\* and only one of the logging call that makes it.
C11_FailureReturnedOnce ==
  /\ [](\A p \in Procs :
         (Finished(p) /\ call[p].op = "OutputContext" /\ call[p].wrote)
         => /\ call[p].sink = "bad" => call[p].err = "write error"
            /\ call[p].sink = "short" => call[p].err = "short write"
            /\ call[p].sink \in {"buf", "discard"} => call[p].err = "nil"
            /\ ret[p] = "returned")
  /\ [][\/ writes' = writes
        \/ \E p \in Procs :
             /\ ~call[p].wrote /\ call'[p].wrote
             /\ call'[p] = [call[p] EXCEPT !.wrote = TRUE, !.sink = call'[p].sink]
             /\ Len(writes') = Len(writes) + 1
             /\ SubSeq(writes', 1, Len(writes)) = writes
             /\ writes'[Len(writes')].p = p]_vars

\* a call whose Write was short has returned the short-write error
C11_ShortWriteReturned ==
  \E p \in Procs :
    /\ Finished(p) /\ call[p].op = "OutputContext" /\ call[p].wrote
    /\ call[p].sink = "short" /\ call[p].err = "short write"
    /\ Cardinality({i \in 1..Len(writes) : writes[i].p = p}) = 1

\* the names of the built-in fields
BuiltIn ==
  [time |-> <<116, 105, 109, 101>>, level |-> <<108, 101, 118, 101, 108>>,
   message |-> <<109, 101, 115, 115, 97, 103, 101>>, file |-> <<102, 105, 108, 101>>,
   line |-> <<108, 105, 110, 101>>]

\* C12: a record without caller fields of a logger built with Lshortfile
\* has file and line fields naming the caller's file and line, and such a
\* record of a logger built with Ldate or Ltime has a time field.
C12_FlagsOfNewHonoured ==
  \A i \in 1..Len(writes) :
    LET ms == RecordMembers(writes[i].data)
    IN  (writes[i].fields = NoFields /\ writes[i].ctx = 0)
        => /\ HasFlag(flag, Lshortfile)
              => /\ \E m \in Named(ms, BuiltIn.file) :
                      ms[m].val = <<34>> \o ShortFile(Caller0.file) \o <<34>>
                 /\ \E m \in Named(ms, BuiltIn.line) :
                      IsIntText(ms[m].val) /\ IntOf(ms[m].val) = Caller0.line
           /\ (HasFlag(flag, Ldate) \/ HasFlag(flag, Ltime))
              => Named(ms, BuiltIn.time) # {}

RECURSIVE Ascending(_)
\* the elements of a set of names, in ascending byte-wise order
Ascending(S) ==
  IF S = {} THEN <<>>
  ELSE LET lo == CHOOSE k \in S : \A other \in S \ {k} : KeyLessFrom(k, other, 1)
       IN  <<lo>> \o Ascending(S \ {lo})

\* the names a record is expected to carry, in order, for the logger's flag
ExpectedNames(w, lflag) ==
  LET sorted == Ascending(KeysOf(MapsOf(w)))
  IN  (IF HasFlag(lflag, Ldate) \/ HasFlag(lflag, Ltime) \/ HasFlag(lflag, Lmicroseconds)
       THEN <<BuiltIn.time>> ELSE <<>>)
      \o <<BuiltIn.level, BuiltIn.message>>
      \o (IF HasFlag(lflag, Lshortfile) \/ HasFlag(lflag, Llongfile)
          THEN <<BuiltIn.file, BuiltIn.line>> ELSE <<>>)
      \o [m \in 1..Len(sorted) |-> ExpectedName(sorted[m])]

\* C13: every record whose values all have a rendering is one JSON object
\* whose members are, in this order, time (exactly when the flags contain
\* Ldate, Ltime or Lmicroseconds), level, message, file and line (exactly
\* when Lshortfile or Llongfile is set), and the merged caller fields in
\* ascending byte-wise order of their names.
C13_FixedFieldOrder ==
  \A i \in 1..Len(writes) :
    (\A k \in KeysOf(MapsOf(writes[i])) : Renderable(MostLocalFrom(MapsOf(writes[i]), k, 1)))
    => /\ IsObjectLine(writes[i].data)
       /\ [m \in 1..Len(RecordMembers(writes[i].data)) |-> RecordMembers(writes[i].data)[m].key]
            = ExpectedNames(writes[i], flag)

(***************************************************************************)
(* SpecUnit: the encoder's functions called on an encodeState directly,    *)
(* the way TestString, FuzzString, TestFormatTime and TestAppendAny call   *)
(* them, one call in each behaviour, on inputs drawn from bounded sets.    *)
(***************************************************************************)
MaxPieces == 2

\* what the strings are put together from: ASCII, the characters with an
\* escape, multi-byte characters, and bytes that are not UTF-8
StringPieces ==
  {<<97>>, <<32>>, <<34>>, <<92>>, <<47>>, <<10>>, <<13>>, <<9>>, <<0>>, <<8>>, <<31>>,
   <<60>>, <<62>>, <<38>>, <<127>>,
   <<195, 169>>,                    \* U+00E9
   <<226, 128, 168>>,               \* U+2028
   <<226, 128, 169>>,               \* U+2029
   <<239, 191, 189>>,               \* U+FFFD
   <<240, 159, 152, 142>>,          \* U+1F60E
   <<128>>, <<194>>, <<255>>,       \* a continuation byte, a lead byte, no UTF-8 byte
   <<226, 128>>,                    \* a character cut short
   <<192, 128>>,                    \* an overlong form
   <<237, 160, 128>>}               \* a surrogate

RECURSIVE Concats(_)
\* the strings of at most n pieces
Concats(n) ==
  IF n = 0 THEN {<<>>}
  ELSE Concats(n - 1) \cup {a \o piece : a \in Concats(n - 1), piece \in StringPieces}

\* a time.Time from its fields in its own location and in UTC
TimeOf(y, mo, d, h, mi, s, ns, uy, umo, ud, uh) ==
  [loc |-> [year |-> y, month |-> mo, day |-> d, hour |-> h, min |-> mi, sec |-> s,
            nsec |-> ns],
   utc |-> [year |-> uy, month |-> umo, day |-> ud, hour |-> uh, min |-> mi, sec |-> s,
            nsec |-> ns]]

\* instants read in a zone one hour east of UTC
Times ==
  {Clock0,
   TimeOf(1999, 12, 31, 23, 59, 59, 999999999, 1999, 12, 31, 22),
   TimeOf(2024, 1, 1, 0, 0, 0, 999, 2023, 12, 31, 23),
   TimeOf(800, 10, 9, 10, 20, 30, 1000, 800, 10, 9, 9),
   TimeOf(9999, 12, 31, 23, 59, 59, 999999499, 9999, 12, 31, 22),
   TimeOf(10000, 1, 1, 0, 30, 0, 0, 9999, 12, 31, 23),
   TimeOf(0, 1, 1, 0, 0, 0, 0, -1, 12, 31, 23)}

\* the flag combinations appendTime tells apart
TimeFlags ==
  {d + t + m + u : d \in {0, Ldate}, t \in {0, Ltime}, m \in {0, Lmicroseconds},
                   u \in {0, LUTC}}

\* finite floats: digits and decimal point position
FloatDigits ==
  {<<<<49>>, 1>>,                                         \* 1
   <<<<49, 53>>, 1>>,                                     \* 1.5
   <<<<49, 50, 51, 52, 53, 54>>, 3>>,                     \* 123.456
   <<<<49>>, 3>>,                                         \* 100
   <<<<49>>, -5>>,                                        \* 1e-6
   <<<<57, 57, 57, 57, 57, 57, 57, 57, 57, 57, 57, 57, 57, 57, 57, 55>>, -6>>,
                                                          \* the float64 below 1e-6
   <<<<57, 57, 57, 57, 57, 57, 57>>, -6>>,                \* the float32 below 1e-6
   <<<<49>>, -6>>,                                        \* 1e-7
   <<<<49, 50>>, -8>>,                                    \* 1.2e-9
   <<<<49>>, -9>>,                                        \* 1e-10
   <<<<53>>, -323>>,                                      \* 5e-324
   <<<<49>>, 22>>,                                        \* 1e21
   <<<<57, 57, 57, 57, 57, 57, 57, 57, 57, 57, 57, 57, 57, 57, 57, 57, 57>>, 21>>,
                                                          \* the float64 below 1e21
   <<<<57, 57, 57, 57, 57, 57, 57, 53>>, 21>>,            \* the float32 below 1e21
   <<<<49, 50, 53>>, 31>>,                                \* 1.25e30
   <<<<49>>, 101>>}                                       \* 1e100

Floats ==
  {[t |-> ty, k |-> "fin", neg |-> ng, n |-> d[2], s |-> d[1]] :
     ty \in {"float64", "float32"}, ng \in BOOLEAN, d \in FloatDigits}
  \cup {[t |-> ty, k |-> k, neg |-> ng, n |-> 0, s |-> <<>>] :
          ty \in {"float64", "float32"}, k \in {"zero", "inf", "nan"}, ng \in BOOLEAN}

\* e.Reset(); e.appendString(s) on the state made by newEncodeState()
TestString(s) ==
  /\ unit.fn = "none"
  /\ unit' = [NoUnit EXCEPT !.fn = "appendString", !.s = s,
                            !.e = [newEncodeState EXCEPT !.buf = appendString(<<>>, s)]]
  /\ UNCHANGED <<out, isDiscard, level, prefix, flag, mu, pool, nalloc, nodes, pc, call, st,
                 ret, sinkData, writes, exited, ncalls>>

\* e := new(encodeState); e.appendTime(flag, now)
TestFormatTime(flags, now) ==
  /\ unit.fn = "none"
  /\ unit' = [NoUnit EXCEPT !.fn = "appendTime", !.flags = flags, !.now = now,
                            !.e = [NewPooledState EXCEPT !.buf = appendTime(<<>>, flags, now)]]
  /\ UNCHANGED <<out, isDiscard, level, prefix, flag, mu, pool, nalloc, nodes, pc, call, st,
                 ret, sinkData, writes, exited, ncalls>>

\* e.Reset(); e.appendAny(v) on the state made by newEncodeState()
TestAppendAny(v) ==
  /\ unit.fn = "none"
  /\ unit' = [NoUnit EXCEPT !.fn = "appendAny", !.v = v,
                            !.e = [newEncodeState EXCEPT !.buf = appendAny(<<>>, TRUE, v).buf],
                            !.err = appendAny(<<>>, TRUE, v).err]
  /\ UNCHANGED <<out, isDiscard, level, prefix, flag, mu, pool, nalloc, nodes, pc, call, st,
                 ret, sinkData, writes, exited, ncalls>>

NextUnit ==
  \/ \E s \in Concats(MaxPieces) : TestString(s)
  \/ \E f \in TimeFlags, now \in Times : TestFormatTime(f, now)
  \/ \E v \in Floats : TestAppendAny(v)

SpecUnit == Init /\ [][NextUnit]_vars

(***************************************************************************)
(* What appendString is expected to write, told from the bytes of its      *)
(* input: UTF-8 by the table of well-formed byte sequences (Unicode,       *)
(* table 3-7), the escapes by the character.                               *)
(***************************************************************************)
\* the length of the well-formed character at byte i of s, 0 if there is none
WellFormedLen(s, i) ==
  LET b1 == At(s, i)
      tail(k) == At(s, i + k) >= 128 /\ At(s, i + k) <= 191
      second(lo, hi) == At(s, i + 1) >= lo /\ At(s, i + 1) <= hi
  IN  IF b1 <= 127 THEN 1
      ELSE IF b1 >= 194 /\ b1 <= 223 /\ tail(1) THEN 2
      ELSE IF b1 = 224 /\ second(160, 191) /\ tail(2) THEN 3
      ELSE IF b1 >= 225 /\ b1 <= 236 /\ tail(1) /\ tail(2) THEN 3
      ELSE IF b1 = 237 /\ second(128, 159) /\ tail(2) THEN 3
      ELSE IF b1 >= 238 /\ b1 <= 239 /\ tail(1) /\ tail(2) THEN 3
      ELSE IF b1 = 240 /\ second(144, 191) /\ tail(2) /\ tail(3) THEN 4
      ELSE IF b1 >= 241 /\ b1 <= 243 /\ tail(1) /\ tail(2) /\ tail(3) THEN 4
      ELSE IF b1 = 244 /\ second(128, 143) /\ tail(2) /\ tail(3) THEN 4
      ELSE 0

\* the escape of one character, given by its bytes
ExpectedEscape(ch) ==
  LET lower(d) == IF d < 10 THEN 48 + d ELSE 87 + d
  IN  CASE ch = <<92>> -> <<92, 92>>
        [] ch = <<34>> -> <<92, 34>>
        [] ch = <<10>> -> <<92, 110>>
        [] ch = <<13>> -> <<92, 114>>
        [] ch = <<9>> -> <<92, 116>>
        [] ch = <<226, 128, 168>> -> <<92, 117, 50, 48, 50, 56>>
        [] ch = <<226, 128, 169>> -> <<92, 117, 50, 48, 50, 57>>
        [] OTHER ->
             IF Len(ch) = 1 /\ (ch[1] < 32 \/ ch[1] \in {60, 62, 38, 127})
             THEN <<92, 117, 48, 48, lower(ch[1] \div 16), lower(ch[1] % 16)>>
             ELSE ch

RECURSIVE ExpectedBody(_, _, _)
\* s from byte i on, character by character: esc says whether characters are
\* escaped or copied; a malformed byte becomes U+FFFD
ExpectedBody(s, i, esc) ==
  IF i > Len(s) THEN <<>>
  ELSE IF WellFormedLen(s, i) = 0 THEN <<239, 191, 189>> \o ExpectedBody(s, i + 1, esc)
  ELSE (IF esc THEN ExpectedEscape(SubSeq(s, i, i + WellFormedLen(s, i) - 1))
        ELSE SubSeq(s, i, i + WellFormedLen(s, i) - 1))
       \o ExpectedBody(s, i + WellFormedLen(s, i), esc)

\* C14: appendString writes a quote, then for each character of its input in
\* turn its escape (two characters for backslash, quote, newline, carriage
\* return and tab; backslash, u and four lowercase hex digits for the other
\* code points below 0x20 and for <, >, &, U+007F, U+2028 and U+2029) or the
\* character itself, U+FFFD for each malformed byte, then a quote.
C14_EscapesPerCharacter ==
  unit.fn = "appendString"
  => unit.e.buf = <<34>> \o ExpectedBody(unit.s, 1, TRUE) \o <<34>>

\* U+2028 followed by a byte that is no UTF-8 has been encoded
C14_EscapedAndReplaced ==
  /\ unit.fn = "appendString"
  /\ unit.s = <<226, 128, 168, 128>>
  /\ unit.e.buf = <<34, 92, 117, 50, 48, 50, 56, 239, 191, 189, 34>>

RECURSIVE Unquote(_, _)
\* what a JSON parser reads from the string whose body starts at byte j of
\* raw: an escape gives its character, any other byte is taken as it is
Unquote(raw, j) ==
  LET c == At(raw, j)
      e == At(raw, j + 1)
      hex(k) == LET d == At(raw, j + k)
                IN  IF d <= 57 THEN d - 48 ELSE IF d >= 97 THEN d - 87 ELSE d - 55
  IN  IF c = 34 \/ c = -1 THEN <<>>
      ELSE IF c # 92 THEN <<c>> \o Unquote(raw, j + 1)
      ELSE IF e = 117
      THEN EncodeRune(4096 * hex(2) + 256 * hex(3) + 16 * hex(4) + hex(5)) \o Unquote(raw, j + 6)
      ELSE <<CASE e = 98 -> 8 [] e = 102 -> 12 [] e = 110 -> 10 [] e = 114 -> 13
               [] e = 116 -> 9 [] OTHER -> e>> \o Unquote(raw, j + 2)

\* raw is one JSON string and nothing else, in well-formed UTF-8
IsJSONStringText(raw) ==
  /\ JSONString(raw, 1) = Len(raw) + 1
  /\ ExpectedBody(raw, 1, FALSE) = raw

\* C15 (as stated): for every input s the fragment appendString writes is
\* valid JSON and a JSON parser reads s from it.
C15_RoundTripsEveryInput ==
  unit.fn = "appendString"
  => /\ IsJSONStringText(unit.e.buf)
     /\ Unquote(unit.e.buf, 2) = unit.s

\* C15 (amended): for every input s the fragment appendString writes is
\* valid JSON, and a JSON parser reads from it s with each malformed byte
\* replaced by U+FFFD: s itself when s is well-formed UTF-8.
C15_RoundTripsWellFormed ==
  unit.fn = "appendString"
  => /\ IsJSONStringText(unit.e.buf)
     /\ Unquote(unit.e.buf, 2) = ExpectedBody(unit.s, 1, FALSE)
     /\ (ExpectedBody(unit.s, 1, FALSE) = unit.s => Unquote(unit.e.buf, 2) = unit.s)

\* a string with a byte that is no UTF-8 has been encoded, and reads back
\* with U+FFFD in its place
C15_MalformedReplaced ==
  /\ unit.fn = "appendString"
  /\ unit.s = <<97, 128>>
  /\ Unquote(unit.e.buf, 2) = <<97, 239, 191, 189>>

(***************************************************************************)
(* What appendTime is expected to write.                                   *)
(***************************************************************************)
\* n in decimal, zero-padded on the left to w digits
Pad(n, w) == Zeros(w - Len(FormatUint(n))) \o FormatUint(n)

\* the fields appendTime renders: those of the instant in UTC when LUTC is
\* set, in its own location otherwise
Shown(u) == IF HasFlag(u.flags, LUTC) THEN u.now.utc ELSE u.now.loc

\* HH:MM:SS
ClockText(t) == Pad(t.hour, 2) \o <<58>> \o Pad(t.min, 2) \o <<58>> \o Pad(t.sec, 2)

\* txt is YYYY-MM-DD in decimal digits and names the date of t
IsDateOf(txt, t) ==
  /\ Len(txt) = 10
  /\ \A i \in {1, 2, 3, 4, 6, 7, 9, 10} : IsDigit(txt[i])
  /\ txt[5] = 45 /\ txt[8] = 45
  /\ DigitsValue(SubSeq(txt, 1, 4), 1, 0) = t.year
  /\ DigitsValue(SubSeq(txt, 6, 7), 1, 0) = t.month
  /\ DigitsValue(SubSeq(txt, 9, 10), 1, 0) = t.day

\* C16: for every instant and flag combination appendTime writes the date as
\* ten characters YYYY-MM-DD of decimal digits iff Ldate is set, then
\* HH:MM:SS iff Ltime or Lmicroseconds is set, with T before it iff Ldate is
\* set too, then the microsecond part if asked for, then Z iff LUTC is set,
\* all of the instant in UTC when LUTC is set, and nothing else.
C16_TimeLayout ==
  unit.fn = "appendTime"
  => LET buf == unit.e.buf
         date == HasFlag(unit.flags, Ldate)
         clock == HasFlag(unit.flags, Ltime) \/ HasFlag(unit.flags, Lmicroseconds)
         cut == IF date THEN 10 ELSE 0
     IN  /\ Len(buf) >= cut
         /\ date => IsDateOf(SubSeq(buf, 1, 10), Shown(unit))
         /\ SubSeq(buf, cut + 1, Len(buf))
              = (IF date /\ clock THEN <<84>> ELSE <<>>)
                \o (IF clock THEN ClockText(Shown(unit)) ELSE <<>>)
                \o (IF HasFlag(unit.flags, Lmicroseconds)
                    THEN <<46>> \o Pad(Shown(unit).nsec \div 1000, 6) ELSE <<>>)
                \o (IF HasFlag(unit.flags, LUTC) THEN <<90>> ELSE <<>>)

\* C17: when Lmicroseconds is set appendTime writes, behind the seconds of
\* the instant, a dot and six decimal digits that are floor(nanoseconds /
\* 1000) zero-padded on the left, and nothing more but the Z of LUTC: the
\* value is cut, not rounded, and the seconds are those of the instant.
C17_MicrosecondsTruncated ==
  (unit.fn = "appendTime" /\ HasFlag(unit.flags, Lmicroseconds))
  => LET buf == unit.e.buf
         cut == IF HasFlag(unit.flags, Ldate) THEN 11 ELSE 0
         z == IF HasFlag(unit.flags, LUTC) THEN 1 ELSE 0
         frac == SubSeq(buf, cut + 10, cut + 15)
     IN  /\ Len(buf) = cut + 15 + z
         /\ SubSeq(buf, cut + 1, cut + 8) = ClockText(Shown(unit))
         /\ buf[cut + 9] = 46
         /\ \A i \in 1..6 : IsDigit(frac[i])
         /\ DigitsValue(frac, 1, 0) * 1000 <= Shown(unit).nsec
         /\ Shown(unit).nsec < (DigitsValue(frac, 1, 0) + 1) * 1000

\* 23:59:59.999999999 has been rendered with microseconds: .999999 behind
\* the seconds 59
C17_NoCarry ==
  /\ unit.fn = "appendTime"
  /\ unit.flags = Ltime + Lmicroseconds
  /\ unit.now.loc.nsec = 999999999
  /\ unit.e.buf = <<50, 51, 58, 53, 57, 58, 53, 57, 46, 57, 57, 57, 57, 57, 57>>

(***************************************************************************)
(* What a float is expected to be rendered as.                             *)
(***************************************************************************)
\* the first index of byte c in b, Len(b) + 1 if there is none
IndexOf(b, c) ==
  IF \E i \in 1..Len(b) : b[i] = c
  THEN CHOOSE i \in 1..Len(b) : b[i] = c /\ \A j \in 1..(i - 1) : b[j] # c
  ELSE Len(b) + 1

\* the number a decimal text denotes (sign aside), as significant digits
\* and decimal point position: 0.digits * 10^point.  txt is an integer part,
\* an optional fraction and an optional exponent of sign and digits.
Denoted(txt) ==
  LET e == IndexOf(txt, 101)
      mant == SubSeq(txt, 1, e - 1)
      dot == IndexOf(mant, 46)
      all == SubSeq(mant, 1, dot - 1) \o SubSeq(mant, dot + 1, Len(mant))
      first == CHOOSE i \in 1..Len(all) : all[i] # 48 /\ \A j \in 1..(i - 1) : all[j] = 48
      last == CHOOSE i \in 1..Len(all) : all[i] # 48 /\ \A j \in (i + 1)..Len(all) : all[j] = 48
      exp == IF e > Len(txt) THEN 0
             ELSE (IF txt[e + 1] = 45 THEN -1 ELSE 1) * DigitsValue(txt, e + 2, 0)
  IN  [digits |-> SubSeq(all, first, last), point |-> (dot - 1) - (first - 1) + exp]

\* C18: a finite float32 or float64 is rendered as a JSON number that
\* denotes it with its shortest digits, zero as 0; in fixed-point notation
\* when its absolute value is zero or in [1e-6, 1e21) and in exponential
\* notation otherwise, the mantissa with one digit before the point, the
\* exponent with its sign and without a leading zero.
C18_FloatNotation ==
  (unit.fn = "appendAny" /\ unit.v.t \in {"float32", "float64"}
     /\ unit.v.k \in {"zero", "fin"})
  => LET buf == unit.e.buf
         txt == IF unit.v.neg THEN SubSeq(buf, 2, Len(buf)) ELSE buf
         e == IndexOf(txt, 101)
         fixed == unit.v.k = "zero" \/ (unit.v.n >= -5 /\ unit.v.n <= 21)
     IN  /\ unit.err = "nil"
         /\ JSONNumber(buf, 1) = Len(buf) + 1
         /\ unit.v.neg <=> buf[1] = 45
         /\ fixed <=> e > Len(txt)
         /\ unit.v.k = "zero" => txt = <<48>>
         /\ unit.v.k = "fin"
            => /\ Denoted(txt) = [digits |-> unit.v.s, point |-> unit.v.n]
               /\ ~fixed => /\ IndexOf(txt, 46) \in {2, Len(txt) + 1}
                            /\ e = (IF Len(unit.v.s) > 1 THEN Len(unit.v.s) + 2 ELSE 2)
                            /\ txt[e + 1] \in {43, 45}
                            /\ IsDigit(txt[e + 2]) /\ txt[e + 2] # 48

\* the float64 just below 1e-6 has been rendered as 9.999999999999997e-7
C18_BelowMicro ==
  /\ unit.fn = "appendAny"
  /\ unit.v = Float64V("fin", FALSE,
                       <<57, 57, 57, 57, 57, 57, 57, 57, 57, 57, 57, 57, 57, 57, 57, 55>>, -6)
  /\ unit.e.buf = <<57, 46, 57, 57, 57, 57, 57, 57, 57, 57, 57, 57, 57, 57, 57, 57, 55,
                    101, 45, 55>>

(***************************************************************************)
(* SpecLevel: one goroutine calling OutputContext at the named levels and  *)
(* at custom levels below LevelTrace, while the threshold is set.          *)
(***************************************************************************)
CallLevels == (LevelTrace - 2)..LevelPanic
Thresholds == {LevelTrace - 2, LevelTrace, LevelInfo}

NextLevel ==
  \/ \E lv \in Thresholds : SetLevel(lv)
  \/ \E c \in CallsOf(<<>>, {<<"OutputContext", lv>> : lv \in CallLevels}, {}, {MsgHi},
                      {NoFields}) : Start(1, c)
  \/ Gate(1)
  \/ EncodeRecord(1)
  \/ LockWrite(1)
  \/ WriteDone(1)

SpecLevel == Init /\ [][NextLevel]_vars

\* the canonical names of LevelTrace to LevelPanic, in this order
LevelNames ==
  <<<<116, 114, 97, 99, 101>>, <<100, 101, 98, 117, 103>>, <<105, 110, 102, 111>>,
    <<119, 97, 114, 110>>, <<101, 114, 114, 111, 114>>, <<102, 97, 116, 97, 108>>,
    <<112, 97, 110, 105, 99>>>>

\* C19: the level field of every record is the canonical lowercase name of
\* the call's level for LevelTrace to LevelPanic, and for a custom level
\* below LevelTrace a number, bare or in quotes, that is the level.
C19_LevelNamedOrNumbered ==
  \A i \in 1..Len(writes) :
    LET ms == RecordMembers(writes[i].data)
        lv == writes[i].level
    IN  \E m \in Named(ms, BuiltIn.level) :
          LET val == ms[m].val
              bare == IF val[1] = 34 THEN SubSeq(val, 2, Len(val) - 1) ELSE val
          IN  IF lv >= LevelTrace /\ lv <= LevelPanic
              THEN val = <<34>> \o LevelNames[lv - LevelTrace + 1] \o <<34>>
              ELSE lv < LevelTrace => (IsIntText(bare) /\ IntOf(bare) = lv)

\* C20: every call of Logger.Fatal that has ended has ended in os.Exit(1),
\* whatever the sink and the threshold.
C20_FatalAlwaysExits ==
  \A p \in Procs :
    (Finished(p) /\ call[p].op = "Fatal") => (ret[p] = "exit" /\ exited)

\* C21: two records written for the same level, message, local fields and
\* scope chain (the flags, the prefix and the clock are the same for all)
\* are the same bytes, whatever the order the maps were ranged over, the
\* pooled state that was used and what it had encoded before.
C21_SameInputSameBytes ==
  \A i, j \in 1..Len(writes) :
    (/\ writes[i].level = writes[j].level
     /\ writes[i].msg = writes[j].msg
     /\ MapsOf(writes[i]) = MapsOf(writes[j]))
    => writes[i].data = writes[j].data

\* two records have been written for the same call with two local fields
\* under a scope, the second from a state the first call had put back
C21_TwiceFromThePool ==
  /\ Len(writes) = 2
  /\ writes[1].msg = writes[2].msg
  /\ Cardinality(DOMAIN writes[1].fields) = 2
  /\ writes[1].ctx # 0
  /\ MapsOf(writes[1]) = MapsOf(writes[2])
  /\ nalloc = 1

\* C22: no step changes a scope node that exists: With only adds a node, and
\* a logging call changes neither a node nor, while it is under way, the
\* local fields and the context it was given.
C22_NodesImmutable ==
  [][/\ Len(nodes') >= Len(nodes)
     /\ \A i \in 1..Len(nodes) : nodes'[i] = nodes[i]
     /\ \A p \in Procs :
          pc[p] # "idle"
          => /\ call'[p].fields = call[p].fields
             /\ call'[p].ctx = call[p].ctx
             /\ ChainOf(nodes', call'[p].ctx) = ChainOf(nodes, call[p].ctx)]_vars

\* a record with local fields has been written under a scope nested in
\* another
C22_LoggedUnderNestedScope ==
  /\ Len(nodes) = 2
  /\ nodes[2].parent = 1
  /\ \E i \in 1..Len(writes) : writes[i].ctx = 2 /\ writes[i].fields # NoFields

ScopeFields ==
  {KeyA :> NaN @@ KeyB :> IntV(1), KeyTime :> IntV(1) @@ KeyFieldTime :> IntV(2)}

NextScope ==
  \/ \E par \in 0..Len(nodes), f \in EncScopes : With(par, f)
  \/ \E c \in CallsOf(nodes, {<<"OutputContext", LevelInfo>>}, {}, {MsgHi}, ScopeFields) :
       Start(1, c)
  \/ Gate(1)
  \/ EncodeRecord(1)
  \/ LockWrite(1)
  \/ WriteDone(1)

SpecScope == Init /\ [][NextScope]_vars

\* C24: the encode states held by calls between pool.Get and the end of
\* their Write are pairwise distinct, none of them is in the pool meanwhile,
\* and the pool holds no state twice.
C24_StateOwnedByOneCall ==
  /\ \A p, q \in Procs :
       (p # q /\ pc[p] \in {"lock", "write"} /\ pc[q] \in {"lock", "write"})
       => st[p].id # st[q].id
  /\ \A p \in Procs :
       pc[p] \in {"lock", "write"}
       => /\ st[p].id \in 1..nalloc
          /\ \A e \in BagToSet(pool) : e.id # st[p].id
  /\ \A e \in BagToSet(pool) :
       /\ CopiesIn(e, pool) = 1
       /\ \A f \in BagToSet(pool) : f.id = e.id => f = e

\* one call is writing while another waits for the mutex with its own state
C24_TwoStatesInFlight ==
  /\ pc[1] = "write"
  /\ pc[2] = "lock"
  /\ st[1].id # st[2].id

(***************************************************************************)
(* SpecNew: as SpecWrite, for a Logger that New may have built on          *)
(* io.Discard.                                                             *)
(***************************************************************************)
InitNew == InitLogger(SpecSinks, {<<>>}, {Ldate + Ltime})

SpecNew == InitNew /\ [][NextWrite]_vars

\* C25: in every state of a Logger, from New on and through every
\* SetOutput, isDiscard is set exactly when the sink is io.Discard.
C25_DiscardFlagTracksSink == isDiscard <=> (out = "discard")


(***************************************************************************)
(* SpecFile: loggers built with Lshortfile, Llongfile or both, called from *)
(* files at several paths.                                                 *)
(***************************************************************************)
\* runtime.Caller: /a/x.go:7, /x.go:3 and x.go:5
Callers ==
  {Caller0,
   [file |-> <<47, 120, 46, 103, 111>>, line |-> 3, ok |-> TRUE],
   [file |-> <<120, 46, 103, 111>>, line |-> 5, ok |-> TRUE]}

NextFile ==
  \/ \E p \in Procs :
       \E c \in {MkCall("OutputContext", LevelInfo, MsgHi, NoFields, 0, Clock0, cl) :
                   cl \in Callers} : Start(p, c)
  \/ \E p \in Procs : Gate(p)
  \/ \E p \in Procs : EncodeRecord(p)
  \/ \E p \in Procs : LockWrite(p)
  \/ \E p \in Procs : WriteDone(p)

SpecFile ==
  InitLogger({"buf"}, {<<>>}, {Lshortfile, Llongfile, Lshortfile + Llongfile})
    /\ [][NextFile]_vars

RECURSIVE AfterLastSlash(_, _)
\* the text of a path behind its final '/', the whole path when it has none
AfterLastSlash(file, j) ==
  IF j = 0 THEN file
  ELSE IF file[j] = 47 THEN SubSeq(file, j + 1, Len(file))
  ELSE AfterLastSlash(file, j - 1)

\* C26: with Lshortfile the file name OutputContext computes is the text
\* behind the final '/' of the caller's path, for every path, and every record
\* has a file field holding it; with Llongfile alone the field holds the full
\* path.
C26_ShortFileIsLastComponent ==
  \A p \in Procs :
    LET file == call[p].caller.file
        last == AfterLastSlash(file, Len(file))
    IN  /\ (call[p].op # "none" /\ HasFlag(flag, Lshortfile)) => ShortFile(file) = last
        /\ (Finished(p) /\ call[p].wrote)
             => LET ms == RecordMembers(LastWrite(p).data)
                IN  \E m \in Named(ms, BuiltIn.file) :
                      ms[m].val = <<34>> \o (IF HasFlag(flag, Lshortfile) THEN last
                                             ELSE file) \o <<34>>


\* C27: every state of the pool has its general-purpose encoder set, and no
\* call faults: a call with a value for
\* appendAny's fallback branch writes a record or returns an error.
C27_PooledStatesCanEncode ==
  /\ \A e \in BagToSet(pool) : e.enc
  /\ \A p \in Procs :
       /\ ret[p] # "fault"
       /\ (Passed(p) /\ \E k \in DOMAIN call[p].fields : IsCompound(call[p].fields[k]))
            => ret[p] = "returned" /\ (call[p].wrote \/ call[p].err \notin {"nil", "none"})


\* C28: a state in the pool keeps no caller key or value in its key/value
\* scratch array, whether the call that used it last succeeded or stopped on
\* a rendering error, and the state a call writes from holds nothing but the
\* record rendered for that call.
C28_ScratchCleared ==
  /\ \A e \in BagToSet(pool) : \A i \in 1..Len(e.kvArr) : e.kvArr[i] = ZeroKV
  /\ \A p \in Procs :
       pc[p] = "lock"
         => \E its \in IterOrders(<<call[p].fields>> \o ChainOf(nodes, call[p].ctx)) :
              st[p].buf = Render(NewPooledState, call[p], nodes, flag, its).e.buf

====
